---- MODULE Spec2Model ----
(***************************************************************************)
(* ChecklistContainer (src/src/components/Checklist/ChecklistContainer.tsx)*)
(* as a state machine: the React state `checklist`, the value captured by  *)
(* the closures of the last render, the debounce timers of the auto-save   *)
(* effect, and the localStorage record 'prework-checklist'.                *)
(***************************************************************************)
EXTENDS Integers, Sequences, FiniteSets, TLC

(* ------------------------------ bounds -------------------------------- *)
\* handler calls per behaviour
MaxOps == 2
\* the clock advances in steps of TickMs; handlers are called up to MaxTime and
\* the clock runs on until the last timer they can set is due
TickMs == 500
MaxTime == 500
\* number of items of the large stored checklist
BigN == 200

(* -------------------------- program constants -------------------------- *)
\* setTimeout(saveToStorage, 1000)
DebounceDelay == 1000

(* ------------------------------ values --------------------------------- *)
Undefined == [type |-> "undefined"]
Null == [type |-> "null"]
Date(ms) == [type |-> "Date", ms |-> ms]
\* Date.prototype.toJSON: the ISO string of the instant
IsoString(ms) == [type |-> "string", iso |-> ms]
Str(t) == [type |-> "string", text |-> t]

\* property read: a missing key reads as undefined
Get(o, k) == IF k \in DOMAIN o THEN o[k] ELSE Undefined

\* object spread { ...a, ...b }
Merge(a, b) ==
  [k \in (DOMAIN a) \cup (DOMAIN b) |-> IF k \in DOMAIN b THEN b[k] ELSE a[k]]

(* ------------------------------ identifiers ---------------------------- *)
TplId(n) == [kind |-> "tpl", n |-> n]
\* `custom_${Date.now()}_${Math.random().toString(36).substr(2, 9)}`
generateId(t, r) == [kind |-> "custom", ts |-> t, rnd |-> r]
\* `checklist-${Date.now()}`
ResetId(t) == [kind |-> "checklist", ts |-> t]
NoSuchId == [kind |-> "none"]

(* --------------------------- the template ------------------------------ *)
TplItem(n) == [id |-> TplId(n), isCompleted |-> FALSE]

TplSection(n, its, ord) ==
  [id |-> TplId(n), items |-> its, isCollapsed |-> FALSE, order |-> ord,
   completedCount |-> 0, totalCount |-> Len(its)]

CLEANING_PREWORK_TEMPLATE ==
  [id |-> TplId(0),
   sections |-> << TplSection(10, << TplItem(11), TplItem(12) >>, 1),
                   TplSection(20, << TplItem(21), TplItem(22) >>, 2) >>,
   createdAt |-> Date(0), lastModified |-> Date(0),
   progress |-> 0, isCompleted |-> FALSE]

(* ------------------------ the progress aggregator ---------------------- *)
\* whether a section object has an items array
HasItems(s) == "items" \in DOMAIN s

\* the items the aggregator counts for a section: none when the array is missing
ItemsOf(s) == IF HasItems(s) THEN s.items ELSE << >>

RECURSIVE SumTotal(_)
SumTotal(sections) ==
  IF sections = << >> THEN 0
  ELSE Len(ItemsOf(Head(sections))) + SumTotal(Tail(sections))

RECURSIVE SumCompleted(_)
SumCompleted(sections) ==
  IF sections = << >> THEN 0
  ELSE Cardinality({j \in 1..Len(ItemsOf(Head(sections))) :
                      ItemsOf(Head(sections))[j].isCompleted})
       + SumCompleted(Tail(sections))

\* Math.round of a non-negative rational num/den: floor(x + 1/2)
MathRound(num, den) == (2 * num + den) \div (2 * den)

calculateProgress(c) ==
  LET total == SumTotal(c.sections)
      completed == SumCompleted(c.sections)
  IN [total |-> total, completed |-> completed,
      percentage |-> IF total = 0 THEN 0 ELSE MathRound(completed * 100, total)]

(* ------------------------------- JSON ---------------------------------- *)
\* JSON.stringify followed by JSON.parse: a Date becomes its ISO string, a
\* key whose value is undefined is dropped, everything else is kept.
JsonDate(v) == IF v.type = "Date" THEN IsoString(v.ms) ELSE v

JsonItem(it) ==
  LET keep == {k \in DOMAIN it :
                 k \in {"completedAt", "notes"} => it[k] # Undefined}
  IN [k \in keep |-> IF k = "completedAt" THEN JsonDate(it[k]) ELSE it[k]]

JsonSection(s) ==
  IF HasItems(s)
    THEN [s EXCEPT !.items = [i \in 1..Len(s.items) |-> JsonItem(s.items[i])]]
    ELSE s

JsonChecklist(c) ==
  LET keep == {k \in DOMAIN c : k = "completedAt" => c[k] # Undefined}
  IN [k \in keep |->
        IF k \in {"createdAt", "lastModified", "completedAt"} THEN JsonDate(c[k])
        ELSE IF k = "sections"
               THEN [i \in 1..Len(c.sections) |-> JsonSection(c.sections[i])]
        ELSE c[k]]

\* what localStorage holds after setItem(key, JSON.stringify(c))
Stringify(c) == [type |-> "json", doc |-> JsonChecklist(c)]
\* a stored text that is not JSON
Malformed == [type |-> "text", text |-> "{"]
\* JSON.parse throws a SyntaxError on a text that is not JSON
ParseThrows(saved) == saved.type # "json"
\* JSON.parse of a stored value
Parse(saved) == saved.doc

\* JSON.stringify(exportData, null, 2) of handleExport
StringifyExport(e) ==
  [type |-> "json",
   doc |-> [e EXCEPT !.checklist = JsonChecklist(e.checklist),
                     !.exportedAt = JsonDate(e.exportedAt)]]

\* the messages of the console.error calls
CopyFailed == "Failed to copy:"
CopiedAlert == "Copied to clipboard!"
LoadFailed == "Failed to load from localStorage:"
SaveFailed == "Failed to save to localStorage:"

(* --------------------- pure parts of the handlers ---------------------- *)
\* index of the first element of seq whose id is `id`, 0 when there is none
\* (Array.prototype.find)
FindIndex(seq, id) ==
  LET hits == {i \in 1..Len(seq) : seq[i].id = id}
  IN IF hits = {} THEN 0 ELSE CHOOSE i \in hits : \A j \in hits : i <= j

\* items.filter(item => item.isCompleted).length
CountCompleted(items) == Cardinality({j \in 1..Len(items) : items[j].isCompleted})

\* updateChecklist with the progress taken from the previous state
updateChecklist_StaleProgress(prev, updates, t) ==
  LET updated == Merge(Merge(prev, updates), [lastModified |-> Date(t)])
      progress == calculateProgress(prev)
  IN [updated EXCEPT !.progress = progress.percentage,
                     !.isCompleted = (progress.percentage = 100)]

\* updateChecklist that recomputes progress and leaves isCompleted as it was
updateChecklist_KeepsCompleted(prev, updates, t) ==
  LET updated == Merge(Merge(prev, updates), [lastModified |-> Date(t)])
      progress == calculateProgress(updated)
  IN [updated EXCEPT !.progress = progress.percentage]

\* the setChecklist reducer of updateChecklist
updateChecklist(prev, updates, t) ==
  LET updated == Merge(Merge(prev, updates), [lastModified |-> Date(t)])
      progress == calculateProgress(updated)
  IN [updated EXCEPT !.progress = progress.percentage,
                     !.isCompleted = (progress.percentage = 100)]

ToggleSectionSections(sections, sectionId) ==
  [i \in 1..Len(sections) |->
     IF sections[i].id = sectionId
       THEN [sections[i] EXCEPT !.isCollapsed = ~@]
       ELSE sections[i]]

UpdateItemSections(sections, sectionId, itemId, updates) ==
  [i \in 1..Len(sections) |->
     IF sections[i].id = sectionId
       THEN LET items == sections[i].items
                updatedItems ==
                  [j \in 1..Len(items) |->
                     IF items[j].id = itemId THEN Merge(items[j], updates)
                                             ELSE items[j]]
            IN [sections[i] EXCEPT !.items = updatedItems,
                                   !.completedCount = CountCompleted(updatedItems)]
       ELSE sections[i]]

\* the updates handleToggleComplete builds for the item it found
ToggleUpdates(item, t) ==
  [isCompleted |-> ~item.isCompleted,
   completedAt |-> IF ~item.isCompleted THEN Date(t) ELSE Undefined]

\* Array.prototype.sort((a, b) => a.order - b.order), which is stable
RECURSIVE InsertByOrder(_, _)
InsertByOrder(sorted, x) ==
  IF sorted = << >> THEN << x >>
  ELSE IF Head(sorted).order <= x.order
         THEN << Head(sorted) >> \o InsertByOrder(Tail(sorted), x)
         ELSE << x >> \o sorted

RECURSIVE SortByOrder(_)
SortByOrder(seq) ==
  IF seq = << >> THEN << >>
  ELSE InsertByOrder(SortByOrder(SubSeq(seq, 1, Len(seq) - 1)), seq[Len(seq)])

AddSectionSections(sections, newSection, id) ==
  SortByOrder(Append(sections, Merge(newSection, [id |-> id])))

AddItemSections(sections, sectionId, newItem, id) ==
  [i \in 1..Len(sections) |->
     IF sections[i].id = sectionId
       THEN LET updatedItems == Append(sections[i].items, Merge(newItem, [id |-> id]))
            IN [sections[i] EXCEPT !.items = updatedItems,
                                   !.totalCount = Len(updatedItems)]
       ELSE sections[i]]

\* a reset that copies the first section of the template only
resetChecklist_FirstSectionOnly(t) ==
  Merge(CLEANING_PREWORK_TEMPLATE,
        [id |-> ResetId(t), createdAt |-> Date(t), lastModified |-> Date(t),
         sections |-> SubSeq(CLEANING_PREWORK_TEMPLATE.sections, 1, 1)])

resetChecklist(t) ==
  Merge(CLEANING_PREWORK_TEMPLATE,
        [id |-> ResetId(t), createdAt |-> Date(t), lastModified |-> Date(t)])

(* --------------------- what earlier sessions left ---------------------- *)
\* handleToggleComplete followed by the re-render, as one function of the state
ToggleAt(c, si, ii, t) ==
  LET sec == c.sections[si]
      item == sec.items[ii]
  IN updateChecklist(c,
       [sections |-> UpdateItemSections(c.sections, sec.id, item.id,
                                        ToggleUpdates(item, t))], t)

\* the template with its first item ticked
OneDone == ToggleAt(CLEANING_PREWORK_TEMPLATE, 1, 1, 0)

\* the template with every item ticked
AllDone == ToggleAt(ToggleAt(ToggleAt(OneDone, 1, 2, 0), 2, 1, 0), 2, 2, 0)

\* a checklist of one section grown to BigN items, all but the first ticked
BigItem(j) ==
  IF j = 1 THEN [id |-> TplId(100 + j), isCompleted |-> FALSE]
           ELSE [id |-> TplId(100 + j), isCompleted |-> TRUE, completedAt |-> Date(0)]

BigChecklist ==
  updateChecklist(CLEANING_PREWORK_TEMPLATE,
    [sections |-> << [id |-> TplId(10), items |-> [j \in 1..BigN |-> BigItem(j)],
                      isCollapsed |-> FALSE, order |-> 1,
                      completedCount |-> BigN - 1, totalCount |-> BigN] >>], 0)

\* a checklist in which generateId drew the same identifier twice within one
\* millisecond: a section added in front, then two items added to it, the
\* second one already ticked
TwinChecklist ==
  LET new == generateId(0, 1)
      twin == generateId(0, 2)
      a == updateChecklist(CLEANING_PREWORK_TEMPLATE,
             [sections |-> AddSectionSections(CLEANING_PREWORK_TEMPLATE.sections,
                             [items |-> << >>, isCollapsed |-> FALSE, order |-> 0,
                              completedCount |-> 0, totalCount |-> 0], new)], 0)
      b == updateChecklist(a,
             [sections |-> AddItemSections(a.sections, new,
                                           [isCompleted |-> FALSE], twin)], 0)
  IN updateChecklist(b,
       [sections |-> AddItemSections(b.sections, new,
                                     [isCompleted |-> TRUE], twin)], 0)

\* a checklist in which generateId drew the same identifier for two sections
\* added within one millisecond, one in front and one at the end
TwinSectionsChecklist ==
  LET twin == generateId(0, 1)
      empty(o) == [items |-> << >>, isCollapsed |-> FALSE, order |-> o,
                   completedCount |-> 0, totalCount |-> 0]
      a == updateChecklist(CLEANING_PREWORK_TEMPLATE,
             [sections |-> AddSectionSections(CLEANING_PREWORK_TEMPLATE.sections,
                                              empty(0), twin)], 0)
  IN updateChecklist(a, [sections |-> AddSectionSections(a.sections, empty(3), twin)], 0)

\* a stored checklist whose first section has no items array
NoItemsChecklist ==
  LET first == CLEANING_PREWORK_TEMPLATE.sections[1]
      bare == [k \in DOMAIN first \ {"items"} |-> first[k]]
  IN [CLEANING_PREWORK_TEMPLATE EXCEPT !.sections[1] = bare]

\* the 'prework-checklist' record when the page opens
StoredSnapshots == {Null, Stringify(AllDone)}

\* the initialChecklist prop
InitialChecklists == {Undefined, OneDone}

(* ------------------------------ inputs --------------------------------- *)
\* the suffixes Math.random() draws for generateId.
\* suffixes matter only by being equal or different, so a draw is named by a
\* suffix already drawn in this millisecond (a collision) or by the least
\* number not yet drawn in it (a new value)
RandomSuffixes(ids, t) ==
  LET used == {id.rnd : id \in {x \in ids : x.kind = "custom" /\ x.ts = t}}
  IN used \cup {CHOOSE n \in 1..(Cardinality(used) + 1) :
                   n \notin used /\ \A k \in 1..(n - 1) : k \in used}

NewSections ==
  {[items |-> << >>, isCollapsed |-> FALSE, order |-> o,
    completedCount |-> 0, totalCount |-> 0] : o \in {0, 3}}

NewItems == {[isCompleted |-> b] : b \in BOOLEAN}

ItemUpdates == {[notes |-> Str("note")]}

(* ------------------------------ settings ------------------------------- *)
\* the settings object, by two of its fields: general.autoSave and
\* accessibility.fontSize
defaultSettings == [autoSave |-> TRUE, fontSize |-> "medium"]

\* the settings objects the settings form and an imported file can hold
SettingsInputs ==
  {[autoSave |-> a, fontSize |-> f] : a \in BOOLEAN, f \in {"medium", "large"}}
    \ {defaultSettings}

\* JSON.stringify of a settings object: booleans, numbers and strings only
StringifySettings(x) == [type |-> "json", doc |-> x]

\* the text of a file given to handleImportSettings
ImportFiles == {StringifySettings(x) : x \in SettingsInputs} \cup {Malformed}

SettingsLoadFailed == "Failed to load settings:"
ImportFailed == "Failed to import settings:"
ImportFailedAlert == "Failed to import settings. Please check the file format."

(* -------------------------- the template catalog ----------------------- *)
\* a template of the catalog, by the fields the templates page reads
Preset(n, name, description, cat, difficulty, minutes) ==
  [id |-> TplId(n), name |-> name, description |-> description,
   category |-> [id |-> cat], difficulty |-> difficulty,
   estimatedDuration |-> minutes]

PRESET_TEMPLATES ==
  << Preset(1, "Office Cleaning", "desks and floors", "cleaning", Str("hard"), 30),
     Preset(2, "Kitchen Deep Clean", "oven and sink", "cleaning", Str("easy"), 90),
     Preset(3, "Bathroom Refresh", "sink and tiles", "cleaning", Undefined, 60),
     Preset(4, "HVAC Check", "filters", "maintenance", Str("medium"), 45) >>

TEMPLATE_CATEGORIES == {"cleaning", "maintenance"}

\* what the user types into the search box
SearchTerms == {"", "Sink"}

\* text.toLowerCase().includes(term.toLowerCase()), for the terms above
Includes(text, term) == term = "" \/ (term = "Sink" /\ text \in {"oven and sink", "sink and tiles"})

\* the position of a name in the order of String.prototype.localeCompare
NameRank(name) ==
  CASE name = "Bathroom Refresh" -> 1
    [] name = "HVAC Check" -> 2
    [] name = "Kitchen Deep Clean" -> 3
    [] name = "Office Cleaning" -> 4

\* difficultyOrder[a.difficulty || 'medium']
DifficultyRank(t) ==
  LET d == IF t.difficulty = Undefined THEN Str("medium") ELSE t.difficulty
  IN CASE d = Str("easy") -> 1 [] d = Str("medium") -> 2 [] d = Str("hard") -> 3

\* the number the comparator of getFilteredTemplates ranks a template by
SortKey(t, by) ==
  CASE by = "duration" -> t.estimatedDuration
    [] by = "difficulty" -> DifficultyRank(t)
    [] OTHER -> NameRank(t.name)

\* Array.prototype.sort with that comparator, which is stable
RECURSIVE InsertByKey(_, _, _)
InsertByKey(sorted, x, by) ==
  IF sorted = << >> THEN << x >>
  ELSE IF SortKey(Head(sorted), by) <= SortKey(x, by)
         THEN << Head(sorted) >> \o InsertByKey(Tail(sorted), x, by)
         ELSE << x >> \o sorted

RECURSIVE SortByKey(_, _)
SortByKey(seq, by) ==
  IF seq = << >> THEN << >>
  ELSE InsertByKey(SortByKey(SubSeq(seq, 1, Len(seq) - 1), by), seq[Len(seq)], by)

\* getFilteredTemplates: the array it returns, and what the PRESET_TEMPLATES
\* array holds afterwards. `templates` is PRESET_TEMPLATES itself until a
\* filter replaces it by a new array, and sort works in place.
getFilteredTemplates(presets, category, term, difficulty, by) ==
  LET InCategory(t) == t.category.id = category
      Found(t) == Includes(t.name, term) \/ Includes(t.description, term)
      HasDifficulty(t) == t.difficulty = Str(difficulty)
      byCategory == IF category # "" THEN SelectSeq(presets, InCategory) ELSE presets
      bySearch == IF term # "" THEN SelectSeq(byCategory, Found) ELSE byCategory
      byDifficulty == IF difficulty # "all" THEN SelectSeq(bySearch, HasDifficulty)
                                            ELSE bySearch
      isNewArray == category # "" \/ term # "" \/ difficulty # "all"
      sorted == SortByKey(byDifficulty, by)
  IN [templates |-> sorted,
      presets |-> IF isNewArray THEN presets ELSE sorted]

(* ------------------------------- state --------------------------------- *)
VARIABLES
  catalog,           \* the arrays of data/presetChecklists as they are in memory
  selectedCategory,  \* TemplatesPage: the id of the selected category, "" for none
  selectedTemplate,  \* TemplatesPage: the template shown in detail, Null for none
  searchTerm,        \* TemplatesPage
  difficultyFilter,  \* TemplatesPage
  sortBy,            \* TemplatesPage
  filteredTemplates, \* TemplatesPage: the list the last render showed, Null for none
  onExport,          \* the onExport prop is given
  exportData,        \* the React state exportData, '' at first
  isExportModalOpen, \* the React state isExportModalOpen
  exportView,        \* exportData and isExportModalOpen as last rendered
  clipboard,         \* the text on the clipboard, Null at first
  downloaded,        \* the content of the last file downloadJson offered
  exported,          \* history: the last argument of onExport
  exportCalls,       \* history: handleExport calls
  copyFailures,      \* history: clipboard.writeText calls that were rejected
  categories,        \* CreateTemplateModal: the categories prop
  editingTemplate,   \* CreateTemplateModal: the editingTemplate prop, Null for none
  formData,          \* CreateTemplateModal: the React state `formData`
  errors,            \* CreateTemplateModal: the keys of the React state `errors`
  savedTemplate,     \* history: the last argument of the modal's onSave, Null for none
  templateSaves,     \* history: calls of the modal's onSave
  sections,          \* CreateTemplateModal: the React state `sections`
  sectionsView,      \* CreateTemplateModal: `sections` as the last render captured it
  modalDirty,        \* CreateTemplateModal: a re-render is scheduled
  localSettings,     \* SettingsManager: the React state, the draft
  hasUnsavedChanges, \* SettingsManager: the React state
  smCall,            \* history: the last SettingsManager handler called, "" for none
  updateCalls,       \* history: onUpdateSettings calls made by SettingsManager
  settingsPhase,     \* SettingsPage: "init", "mounted", "crashed"
  settings,          \* SettingsPage: the React state
  settingsStorage,   \* localStorage['preWorkAppSettings'], Null when absent
  onSave,            \* the onSave prop is given
  saved,             \* history: the last argument of onSave, Null before any call
  saveCalls,         \* history: onSave calls
  phase,             \* "init" (constructed), "mounted", "unmounted"
  initialChecklist,  \* the prop, Undefined when absent
  checklist,         \* the React state
  view,              \* the checklist the last render's closures captured
  dirty,             \* a re-render is scheduled
  timers,            \* pending setTimeout callbacks: [deadline, value]
  timeoutId,         \* the timer the last run of the auto-save effect set
  storage,           \* localStorage['prework-checklist'], Null when absent
  now,               \* Date.now()
  nops,              \* handler calls so far
  reads,             \* history: localStorage.getItem calls
  writes,            \* history: localStorage.setItem calls that stored a value
  writeFailed,       \* history: a setItem call threw
  lastChangeAt,      \* history: time of the last setChecklist
  burstLen,          \* history: changes in a row less than the delay apart
  writesSinceChange, \* history: setItem calls since the last setChecklist
  cancelledAt,       \* history: deadline of the timer the unmount cleared, -1 if none
  hist,              \* history: the handleToggleComplete call being followed
  storageDenied,     \* the browser denies access to localStorage: every call throws
  callWindow,        \* the user acts on the page up to this time
  logged,            \* the messages console.error was called with
  uncaught,          \* the handlers and effects an exception escaped from
  alerts             \* the messages window.alert was called with, in order

\* the console, the window and the bounds of the environment
browserVars == << storageDenied, callWindow, logged, uncaught, alerts >>

\* the state of SettingsPage
settingsVars == << settingsPhase, settings, settingsStorage >>

\* the export state of ChecklistContainer and where its documents go
exportVars == << onExport, exportData, isExportModalOpen, exportView, clipboard,
                 downloaded, exported, exportCalls, copyFailures >>

\* the state of SettingsManager and the calls it made
managerVars == << localSettings, hasUnsavedChanges, smCall, updateCalls >>

\* the state of TemplatesPage
templatesVars == << selectedCategory, selectedTemplate, searchTerm, difficultyFilter,
                    sortBy, filteredTemplates >>

\* the state of CreateTemplateModal
modalVars == << sections, sectionsView, modalDirty >>

\* the form of CreateTemplateModal, its props and its onSave calls
formVars == << categories, editingTemplate, formData, errors, savedTemplate,
               templateSaves >>

\* the state of the other components, and the catalog they share
otherVars == << settingsVars, managerVars, templatesVars, catalog, modalVars,
               formVars >>

\* the onSave prop and what it was called with
saveVars == << onSave, saved, saveCalls >>

\* the state of ChecklistContainer, its clock and its history
checklistVars == << phase, initialChecklist, checklist, view, dirty, timers, timeoutId,
                    storage, now, reads, writes, writeFailed, lastChangeAt,
                    burstLen, writesSinceChange, cancelledAt, hist, saveVars >>

vars == << phase, initialChecklist, checklist, view, dirty, timers, timeoutId,
           storage, now, nops, reads, writes, writeFailed, lastChangeAt,
           burstLen, writesSinceChange, cancelledAt, hist, browserVars, otherVars,
           exportVars, saveVars >>

ioVars == << reads, writes, writeFailed, writesSinceChange >>

NoHist == [stage |-> 0]

\* history: the last handler call was handleReset
ResetHist == [stage |-> 0, call |-> "handleReset"]

\* history: the last handler call was handleAddItem for this section id
AddItemHist(sectionId) == [stage |-> 0, call |-> "handleAddItem", sectionId |-> sectionId]

\* the state after construction, given the prop and what storage holds
InitWith(props, stored) ==
  /\ phase = "init"
  /\ initialChecklist \in props
  /\ storage \in stored
  /\ checklist = (IF initialChecklist # Undefined THEN initialChecklist
                                                  ELSE CLEANING_PREWORK_TEMPLATE)
  /\ view = checklist
  /\ dirty = FALSE
  /\ timers = {}
  /\ timeoutId = Null
  /\ now = 0
  /\ nops = 0
  /\ reads = 0
  /\ writes = 0
  /\ writeFailed = FALSE
  /\ lastChangeAt = 0
  /\ burstLen = 0
  /\ writesSinceChange = 0
  /\ cancelledAt = -1
  /\ hist = NoHist
  /\ saved = Null
  /\ saveCalls = 0
  /\ logged = {}
  /\ uncaught = {}
  /\ alerts = << >>
  /\ exportData = Str("")
  /\ isExportModalOpen = FALSE
  /\ exportView = [exportData |-> exportData, isExportModalOpen |-> FALSE]
  /\ clipboard = Null
  /\ downloaded = Null
  /\ exported = Null
  /\ exportCalls = 0
  /\ copyFailures = 0

\* SettingsManager after construction: useState(settings), useState(false)
ManagerInit ==
  /\ localSettings = defaultSettings
  /\ hasUnsavedChanges = FALSE
  /\ smCall = ""
  /\ updateCalls = 0

\* SettingsPage after construction, given what storage holds
SettingsInit(stored) ==
  /\ settingsPhase = "init"
  /\ settings = defaultSettings
  /\ settingsStorage \in stored
  /\ ManagerInit

\* TemplatesPage after construction and its first render, the category view
TemplatesInit ==
  /\ selectedCategory = ""
  /\ selectedTemplate = Null
  /\ searchTerm = ""
  /\ difficultyFilter = "all"
  /\ sortBy = "name"
  /\ filteredTemplates = Null

\* the catalog as the module data/presetChecklists defines it
CatalogInit ==
  catalog = [CLEANING_PREWORK_TEMPLATE |-> CLEANING_PREWORK_TEMPLATE,
             PRESET_TEMPLATES |-> PRESET_TEMPLATES]

\* CreateTemplateModal after construction, given the sections of the
\* editingTemplate prop (none without the prop)
ModalInit(edited) ==
  /\ sections \in edited
  /\ sectionsView = sections
  /\ modalDirty = FALSE

\* an editingTemplate prop with the given sections and category
EditedTemplate(secs, categoryId) ==
  [id |-> TplId(5), name |-> "Old", description |-> "old text",
   category |-> [id |-> categoryId], version |-> "2.0", createdAt |-> Date(-1),
   estimatedDuration |-> 30, sections |-> secs]

\* the form of CreateTemplateModal after construction, given the categories
\* prop and the category of the edited template, if one is edited: a template
\* that has sections
FormInit(cats, editedCategories) ==
  /\ categories \in cats
  /\ editingTemplate \in
       (IF sections = << >> THEN {Null}
        ELSE {EditedTemplate(sections, c) : c \in editedCategories})
  /\ formData =
       (IF editingTemplate # Null
          THEN [name |-> editingTemplate.name,
                description |-> editingTemplate.description,
                categoryId |-> editingTemplate.category.id,
                estimatedDuration |-> editingTemplate.estimatedDuration]
          ELSE [name |-> "", description |-> "",
                categoryId |-> (IF categories # << >> THEN categories[1].id ELSE ""),
                estimatedDuration |-> 60])
  /\ errors = {}
  /\ savedTemplate = Null
  /\ templateSaves = 0

\* the other pages are not open
OthersClosed ==
  /\ SettingsInit({Null}) /\ TemplatesInit /\ CatalogInit /\ ModalInit({<< >>})
  /\ FormInit({<< >>}, {})

Init ==
  /\ InitWith(InitialChecklists, StoredSnapshots)
  /\ initialChecklist # Undefined => storage # Null
  /\ storageDenied = FALSE
  /\ callWindow = MaxTime
  /\ onExport = FALSE
  /\ onSave = FALSE
  /\ OthersClosed

\* the page opens on a checklist an earlier session grew and stored
InitStored ==
  /\ InitWith({Undefined}, {Stringify(BigChecklist), Stringify(TwinChecklist),
                            Stringify(TwinSectionsChecklist)})
  /\ storageDenied = FALSE
  /\ callWindow = MaxTime
  /\ onExport = FALSE
  /\ onSave = FALSE
  /\ OthersClosed

\* the page opens on a browser whose storage may be denied or hold a text that
\* is not JSON, and the user goes on acting after the first write is due
InitFaults ==
  /\ InitWith({Undefined}, {Malformed, Stringify(AllDone)})
  /\ storageDenied \in BOOLEAN
  /\ callWindow = MaxTime + DebounceDelay
  /\ onExport = FALSE
  /\ onSave = FALSE
  /\ OthersClosed

(* ------------------------------ effects -------------------------------- *)
\* the timer one run of the auto-save effect sets
SaveTimer(c, t) == [deadline |-> t + DebounceDelay, value |-> c]

\* the effect without its cleanup: the previous timer stays pending
AutoSaveEffect_NoCleanup(c) ==
  /\ timers' = timers \cup {SaveTimer(c, now)}
  /\ timeoutId' = SaveTimer(c, now)

\* the cleanup of the previous run followed by the new run of the effect
AutoSaveEffect(c) ==
  /\ timers' = (timers \ {timeoutId}) \cup {SaveTimer(c, now)}
  /\ timeoutId' = SaveTimer(c, now)

\* if (onSave) { onSave(updated) } in the reducer of updateChecklist
CallOnSave(updated) ==
  /\ saved' = (IF onSave THEN updated ELSE saved)
  /\ saveCalls' = (IF onSave THEN saveCalls + 1 ELSE saveCalls)

\* setChecklist(c): the state changes and a re-render is scheduled
SetChecklist(c) ==
  /\ checklist' = c
  /\ dirty' = TRUE
  /\ burstLen' = (IF burstLen > 0 /\ now - lastChangeAt < DebounceDelay
                    THEN burstLen + 1 ELSE 1)
  /\ lastChangeAt' = now
  /\ writesSinceChange' = 0

\* updateChecklist(updates): the reducer runs on the current state, calls
\* onSave with its result and returns it as the new state
UpdateState(updates) ==
  LET updated == updateChecklist(checklist, updates, now)
  IN SetChecklist(updated) /\ CallOnSave(updated)

\* the statements of the load effect's try block up to the first that throws
\* (getItem when storage is denied, JSON.parse on a text that is not JSON)
TryLoad ==
  /\ reads' = reads + 1
  /\ IF storage # Null /\ ~storageDenied /\ ~ParseThrows(storage)
       THEN SetChecklist(Parse(storage))
       ELSE /\ burstLen' = 1
            /\ UNCHANGED << checklist, dirty, lastChangeAt, writesSinceChange >>

\* whether the try block of the load effect throws
LoadThrows == storageDenied \/ (storage # Null /\ ParseThrows(storage))

\* the load effect without its catch: the exception leaves the effect
LoadFromStorage_NoCatch ==
  /\ TryLoad
  /\ uncaught' = (IF LoadThrows THEN uncaught \cup {"load effect"} ELSE uncaught)
  /\ UNCHANGED logged

\* try { ... } catch (error) { console.error(...) } of the load effect
LoadFromStorage ==
  /\ TryLoad
  /\ logged' = (IF LoadThrows THEN logged \cup {LoadFailed} ELSE logged)
  /\ UNCHANGED uncaught

\* the first commit with the guard of the load effect inverted
Mount_LoadGuardInverted ==
  /\ phase = "init"
  /\ phase' = "mounted"
  /\ AutoSaveEffect(checklist)
  /\ IF initialChecklist # Undefined
       THEN LoadFromStorage
       ELSE /\ burstLen' = 1
            /\ UNCHANGED << reads, checklist, dirty, lastChangeAt, writesSinceChange,
                            logged, uncaught >>
  /\ UNCHANGED << saveVars, initialChecklist, view, storage, now, nops, writes, writeFailed,
                  cancelledAt, hist, storageDenied, callWindow, alerts, otherVars, exportVars >>

\* first commit: both effects run, the auto-save effect first
Mount ==
  /\ phase = "init"
  /\ phase' = "mounted"
  /\ AutoSaveEffect(checklist)
  /\ IF initialChecklist = Undefined
       THEN LoadFromStorage
       ELSE /\ burstLen' = 1
            /\ UNCHANGED << reads, checklist, dirty, lastChangeAt, writesSinceChange,
                            logged, uncaught >>
  /\ UNCHANGED << saveVars, initialChecklist, view, storage, now, nops, writes, writeFailed,
                  cancelledAt, hist, storageDenied, callWindow, alerts, otherVars, exportVars >>

\* what the export state is after a render
Rendered == [exportData |-> exportData, isExportModalOpen |-> isExportModalOpen]

\* a render captures exportData and isExportModalOpen in its closures and its
\* output
RenderExportState ==
  /\ exportView' = Rendered
  /\ UNCHANGED << onExport, exportData, isExportModalOpen, clipboard, downloaded,
                  exported, exportCalls, copyFailures >>

\* the re-render with an auto-save effect that does not depend on `checklist`
Render_EffectNotRerun ==
  /\ phase = "mounted"
  /\ dirty
  /\ view' = checklist
  /\ dirty' = FALSE
  /\ RenderExportState
  /\ UNCHANGED << saveVars, phase, initialChecklist, checklist, timers, timeoutId, storage, now,
                  nops, ioVars, lastChangeAt, burstLen, cancelledAt, hist, browserVars,
                  otherVars >>

\* whether rendering the sections throws: ChecklistSection reads
\* section.items.filter, a TypeError when items is undefined
RenderThrows(c) == \E i \in 1..Len(c.sections) : ~HasItems(c.sections[i])

\* an exception thrown while rendering, with no error boundary above: React
\* removes the whole tree, which runs the cleanup of the auto-save effect
RenderCrash ==
  /\ phase' = "unmounted"
  /\ uncaught' = uncaught \cup {"ChecklistSection"}
  /\ timers' = timers \ {timeoutId}
  /\ dirty' = FALSE
  /\ UNCHANGED << view, timeoutId, cancelledAt, logged, storageDenied, callWindow,
                  alerts, exportVars >>

\* the scheduled re-render: new closures, and the auto-save effect runs again
\* because `checklist` is a new object
Render ==
  /\ phase = "mounted"
  /\ dirty
  /\ IF RenderThrows(checklist)
       THEN RenderCrash
       ELSE /\ view' = checklist
            /\ dirty' = FALSE
            /\ AutoSaveEffect(checklist)
            /\ RenderExportState
            /\ UNCHANGED << phase, cancelledAt, browserVars >>
  /\ UNCHANGED << saveVars, initialChecklist, checklist, storage, now, nops, ioVars,
                  lastChangeAt, burstLen, hist, otherVars >>

\* the teardown without clearTimeout
Unmount_NoCleanup ==
  /\ phase = "mounted"
  /\ phase' = "unmounted"
  /\ cancelledAt' = (IF timeoutId \in timers THEN timeoutId.deadline ELSE -1)
  /\ UNCHANGED << saveVars, initialChecklist, checklist, view, dirty, timers, timeoutId, storage,
                  now, nops, ioVars, lastChangeAt, burstLen, hist, browserVars, otherVars, exportVars >>

\* the component is torn down: the cleanup of the auto-save effect runs
Unmount ==
  /\ phase = "mounted"
  /\ phase' = "unmounted"
  /\ timers' = timers \ {timeoutId}
  /\ cancelledAt' = (IF timeoutId \in timers THEN timeoutId.deadline ELSE -1)
  /\ UNCHANGED << saveVars, initialChecklist, checklist, view, dirty, timeoutId, storage, now,
                  nops, ioVars, lastChangeAt, burstLen, hist, browserVars, otherVars, exportVars >>

\* what saveToStorage does with the exception of a setItem call that throws,
\* without its catch
CatchSave_NoCatch ==
  /\ uncaught' = uncaught \cup {"saveToStorage"}
  /\ UNCHANGED logged

\* catch (error) { console.error('Failed to save to localStorage:', error) }
CatchSave ==
  /\ logged' = logged \cup {SaveFailed}
  /\ UNCHANGED uncaught

\* saveToStorage, run by a due timer; setItem either stores the value or throws
SaveToStorage(t, ok) ==
  /\ t \in timers
  /\ now >= t.deadline
  /\ ~dirty
  /\ timers' = timers \ {t}
  /\ IF ok
       THEN /\ storage' = Stringify(t.value)
            /\ writes' = writes + 1
            /\ UNCHANGED << writeFailed, logged, uncaught >>
       ELSE /\ writeFailed' = TRUE
            /\ CatchSave
            /\ UNCHANGED << storage, writes >>
  /\ writesSinceChange' = writesSinceChange + 1
  /\ UNCHANGED << saveVars, phase, initialChecklist, checklist, view, dirty, timeoutId, now,
                  nops, reads, lastChangeAt, burstLen, cancelledAt, hist,
                  storageDenied, callWindow, alerts, otherVars, exportVars >>

\* the outcomes of a setItem call: it stores the value unless storage is denied,
\* and it can throw in any case (the quota is exceeded)
SetItemOutcomes == IF storageDenied THEN {FALSE} ELSE BOOLEAN

TimerFires == \E t \in timers : \E ok \in SetItemOutcomes : SaveToStorage(t, ok)

\* time passes, once the first commit has run its effects
Tick ==
  /\ phase # "init"
  /\ ~dirty
  /\ now < callWindow + DebounceDelay
  /\ now' = now + TickMs
  /\ UNCHANGED << saveVars, phase, initialChecklist, checklist, view, dirty, timers, timeoutId,
                  storage, nops, ioVars, lastChangeAt, burstLen, cancelledAt, hist,
                  browserVars, otherVars, exportVars >>

(* ------------------------------ handlers ------------------------------- *)
\* a handler can be called: the page is shown
CanCall == phase = "mounted" /\ nops < MaxOps /\ now <= callWindow

\* what a handler call leaves alone, whether or not it sets the state
HandlerFrame ==
  /\ nops' = nops + 1
  /\ UNCHANGED << onSave, phase, initialChecklist, view, timers, timeoutId, storage, now,
                  reads, writes, writeFailed, cancelledAt, browserVars, otherVars, exportVars >>

\* the positions of a rendered list the user acts on: its first and its last
Picked(seq) == {1, Len(seq)} \cap (1..Len(seq))

\* the section ids and (section id, item id) pairs the user acts on
SectionPicks == {view.sections[i].id : i \in Picked(view.sections)}

ItemPicks ==
  UNION { {<< view.sections[i].id, view.sections[i].items[j].id >> :
             j \in Picked(view.sections[i].items)} :
          i \in Picked(view.sections) }

\* the identifiers of the sections and items of a checklist
IdsOf(c) ==
  {c.sections[i].id : i \in 1..Len(c.sections)} \cup
  UNION { {ItemsOf(c.sections[i])[j].id : j \in 1..Len(ItemsOf(c.sections[i]))} :
          i \in 1..Len(c.sections) }

handleToggleSection(sectionId) ==
  /\ CanCall
  /\ UpdateState([sections |-> ToggleSectionSections(view.sections, sectionId)])
  /\ hist' = NoHist
  /\ HandlerFrame

handleUpdateItem(sectionId, itemId, updates) ==
  /\ CanCall
  /\ UpdateState([sections |-> UpdateItemSections(view.sections, sectionId, itemId,
                                                  updates)])
  /\ hist' = NoHist
  /\ HandlerFrame

\* the record that follows a handleToggleComplete call on the item found at
\* (si, ii): the values the call found, and whether it is the second call in a
\* row on that item with a re-render in between
Followed(sectionId, itemId, si, ii) ==
  IF /\ hist.stage = 1
     /\ ~dirty
     /\ hist.sectionId = sectionId
     /\ hist.itemId = itemId
    THEN [hist EXCEPT !.stage = 2]
    ELSE [stage |-> 1, sectionId |-> sectionId, itemId |-> itemId,
          si |-> si, ii |-> ii,
          flag |-> checklist.sections[si].items[ii].isCompleted,
          progress |-> checklist.progress,
          isCompleted |-> checklist.isCompleted]

handleToggleComplete(sectionId, itemId) ==
  /\ CanCall
  /\ LET si == FindIndex(view.sections, sectionId)
         ii == IF si = 0 THEN 0 ELSE FindIndex(view.sections[si].items, itemId)
     IN IF ii # 0
          THEN /\ UpdateState(
                    [sections |-> UpdateItemSections(view.sections, sectionId, itemId,
                                    ToggleUpdates(view.sections[si].items[ii], now))])
               /\ hist' = (IF dirty THEN NoHist
                                    ELSE Followed(sectionId, itemId, si, ii))
          ELSE /\ hist' = NoHist
               /\ UNCHANGED << checklist, dirty, lastChangeAt, burstLen,
                               writesSinceChange, saved, saveCalls >>
  /\ HandlerFrame

handleAddSection(newSection, r) ==
  /\ CanCall
  /\ UpdateState([sections |-> AddSectionSections(view.sections, newSection,
                                                  generateId(now, r))])
  /\ hist' = NoHist
  /\ HandlerFrame

handleAddItem(sectionId, newItem, r) ==
  /\ CanCall
  /\ UpdateState([sections |-> AddItemSections(view.sections, sectionId, newItem,
                                               generateId(now, r))])
  /\ hist' = AddItemHist(sectionId)
  /\ HandlerFrame

handleReset ==
  /\ CanCall
  /\ SetChecklist(resetChecklist(now))
  /\ UNCHANGED << saved, saveCalls >>
  /\ hist' = ResetHist
  /\ HandlerFrame

(* --------------------------- ChecklistSection --------------------------- *)
\* the one-section checklist ChecklistSection wraps its section in
SectionAsChecklist(section, t) ==
  [id |-> section.id, sections |-> << section >>, createdAt |-> Date(t),
   lastModified |-> Date(t), progress |-> 0, isCompleted |-> FALSE]

\* const sectionProgress = calculateProgress({ ..., sections: [section], ... })
sectionProgress(section, t) == calculateProgress(SectionAsChecklist(section, t))

\* section.items.filter(item => item.isCompleted).length
SectionCompletedCount(section) == CountCompleted(section.items)

\* the footer condition without section.items.length > 0
ShowsSectionComplete_NoItemCheck(section) ==
  /\ section.isCollapsed
  /\ SectionCompletedCount(section) = Len(section.items)

\* whether the footer 'Section Complete!' is rendered
ShowsSectionComplete(section) ==
  /\ section.isCollapsed
  /\ SectionCompletedCount(section) = Len(section.items)
  /\ Len(section.items) > 0

(* ------------------------------- export -------------------------------- *)
\* the re-render after setExportData / setIsExportModalOpen alone: `checklist`
\* is the same object, so the auto-save effect does not run again
RenderExport ==
  /\ phase = "mounted"
  /\ ~dirty
  /\ exportView # Rendered
  /\ RenderExportState
  /\ UNCHANGED << checklistVars, nops, browserVars, otherVars >>

\* what an export action leaves alone
ExportFrame ==
  /\ nops' = nops + 1
  /\ UNCHANGED << checklistVars, storageDenied, callWindow, uncaught, otherVars,
                  onExport, exportView >>

\* the ExportData object handleExport builds from the `checklist` of its closure
ExportDocument(c, t) ==
  [checklist |-> c, exportedAt |-> Date(t), version |-> "1.0.0",
   exportedBy |-> "current_user", format |-> "json",
   includeImages |-> TRUE, includeNotes |-> TRUE, includeTimestamps |-> TRUE]

\* the Export button is on the page, under the export modal when that is open
handleExport ==
  /\ CanCall
  /\ ~exportView.isExportModalOpen
  /\ exportData' = StringifyExport(ExportDocument(view, now))
  /\ isExportModalOpen' = TRUE
  /\ exported' = (IF onExport THEN ExportDocument(view, now) ELSE exported)
  /\ exportCalls' = exportCalls + 1
  /\ UNCHANGED << clipboard, downloaded, copyFailures, logged, alerts >>
  /\ ExportFrame

\* onClose of the export modal
CloseExportModal ==
  /\ CanCall
  /\ exportView.isExportModalOpen
  /\ isExportModalOpen' = FALSE
  /\ UNCHANGED << exportData, clipboard, downloaded, exported, exportCalls,
                  copyFailures, logged, alerts >>
  /\ ExportFrame

\* the Download JSON button of the export modal: a Blob of exportData
downloadJson ==
  /\ CanCall
  /\ exportView.isExportModalOpen
  /\ downloaded' = exportView.exportData
  /\ UNCHANGED << exportData, isExportModalOpen, clipboard, exported, exportCalls,
                  copyFailures, logged, alerts >>
  /\ ExportFrame

\* the Copy button of the export modal; writeText resolves or is rejected
copyToClipboard(ok) ==
  /\ CanCall
  /\ exportView.isExportModalOpen
  /\ IF ok
       THEN /\ clipboard' = exportView.exportData
            /\ alerts' = Append(alerts, CopiedAlert)
            /\ UNCHANGED << logged, copyFailures >>
       ELSE /\ logged' = logged \cup {CopyFailed}
            /\ copyFailures' = copyFailures + 1
            /\ UNCHANGED << clipboard, alerts >>
  /\ UNCHANGED << exportData, isExportModalOpen, downloaded, exported, exportCalls >>
  /\ ExportFrame

Copy == \E ok \in BOOLEAN : copyToClipboard(ok)

(* --------------------------- the specification ------------------------- *)
ToggleSection == \E sid \in SectionPicks : handleToggleSection(sid)

UpdateItem ==
  \E p \in ItemPicks : \E u \in ItemUpdates : handleUpdateItem(p[1], p[2], u)

ToggleComplete ==
  \E p \in ItemPicks \cup {<< NoSuchId, NoSuchId >>} : handleToggleComplete(p[1], p[2])

AddSection ==
  \E s \in NewSections : \E r \in RandomSuffixes(IdsOf(checklist), now) :
    handleAddSection(s, r)

AddItem ==
  \E sid \in SectionPicks : \E it \in NewItems :
    \E r \in RandomSuffixes(IdsOf(checklist), now) : handleAddItem(sid, it, r)

Reset == handleReset

Next ==
  \/ Mount
  \/ Render
  \/ Unmount
  \/ TimerFires
  \/ Tick
  \/ ToggleSection
  \/ UpdateItem
  \/ ToggleComplete
  \/ AddSection
  \/ AddItem
  \/ Reset

Spec == Init /\ [][Next]_vars

SpecStored == InitStored /\ [][Next]_vars

\* the scheduler runs a scheduled render, lets time pass and runs a due timer
Fairness ==
  /\ WF_vars(Mount)
  /\ WF_vars(Render)
  /\ WF_vars(Tick)
  /\ WF_vars(TimerFires)

\* the same machine where the edits are item toggles and resets
NextLive ==
  \/ Mount
  \/ Render
  \/ Unmount
  \/ TimerFires
  \/ Tick
  \/ ToggleComplete
  \/ Reset

SpecLive == Init /\ [][NextLive]_vars /\ Fairness

SpecFaults == InitFaults /\ [][NextLive]_vars

\* the parent passes an onSave callback
InitSave ==
  /\ InitWith(InitialChecklists, StoredSnapshots)
  /\ storageDenied = FALSE
  /\ callWindow = MaxTime
  /\ onExport = FALSE
  /\ onSave = TRUE
  /\ OthersClosed

NextSave ==
  \/ Mount
  \/ Render
  \/ ToggleSection
  \/ UpdateItem
  \/ ToggleComplete
  \/ AddSection
  \/ AddItem
  \/ Reset

SpecSave == InitSave /\ [][NextSave]_vars

\* the page opens on a stored checklist with a section that has no items array
InitMalformed ==
  /\ InitWith({Undefined}, {Stringify(NoItemsChecklist)})
  /\ storageDenied = FALSE
  /\ callWindow = MaxTime
  /\ onExport = FALSE
  /\ onSave = FALSE
  /\ OthersClosed

NextMalformed ==
  \/ Mount
  \/ Render
  \/ TimerFires
  \/ Tick
  \/ UpdateItem
  \/ ToggleComplete
  \/ AddItem

SpecMalformed == InitMalformed /\ [][NextMalformed]_vars

\* the page opens with or without an onExport prop
InitExport ==
  /\ InitWith({Undefined}, {Null, Stringify(AllDone)})
  /\ storageDenied = FALSE
  /\ callWindow = MaxTime
  /\ onExport \in BOOLEAN
  /\ onSave = FALSE
  /\ OthersClosed

\* the checklist page where the user ticks items and exports
NextExport ==
  \/ Mount
  \/ Render
  \/ RenderExport
  \/ ToggleComplete
  \/ handleExport
  \/ CloseExportModal
  \/ downloadJson
  \/ Copy

SpecExport == InitExport /\ [][NextExport]_vars

(* ----------------------------- SettingsPage ---------------------------- *)
\* the settings page is opened instead of the checklist
InitSettings ==
  /\ InitWith({Undefined}, {Null})
  /\ storageDenied \in BOOLEAN
  /\ callWindow = MaxTime
  /\ onExport = FALSE
  /\ onSave = FALSE
  /\ SettingsInit({Null, Malformed} \cup {StringifySettings(x) : x \in SettingsInputs})
  /\ TemplatesInit
  /\ CatalogInit
  /\ ModalInit({<< >>})
  /\ FormInit({<< >>}, {})

\* what a settings action leaves alone
SettingsFrame ==
  UNCHANGED << checklistVars, exportVars, storageDenied, callWindow, templatesVars,
               catalog, modalVars, formVars >>

\* the load effect of SettingsPage. getItem is called outside the try,
\* JSON.parse inside it
LoadSettings ==
  /\ settingsPhase = "init"
  /\ IF storageDenied
       THEN /\ settingsPhase' = "crashed"
            /\ uncaught' = uncaught \cup {"SettingsPage load effect"}
            /\ UNCHANGED << settings, logged >>
       ELSE /\ settingsPhase' = "mounted"
            /\ UNCHANGED uncaught
            /\ IF settingsStorage = Null
                 THEN UNCHANGED << settings, logged >>
                 ELSE IF ParseThrows(settingsStorage)
                        THEN /\ logged' = logged \cup {SettingsLoadFailed}
                             /\ UNCHANGED settings
                        ELSE /\ settings' = Parse(settingsStorage)
                             /\ UNCHANGED logged
  /\ UNCHANGED << settingsStorage, nops, alerts >>
  /\ SettingsFrame

\* first commit of SettingsPage, the callbacks of the page being the interface
SettingsMount == LoadSettings /\ UNCHANGED managerVars

CanCallSettings == settingsPhase = "mounted" /\ nops < MaxOps

\* setSettings(newSettings), then setItem outside any try
handleUpdateSettings(newSettings, ok) ==
  /\ CanCallSettings
  /\ nops' = nops + 1
  /\ settings' = newSettings
  /\ IF ok
       THEN /\ settingsStorage' = StringifySettings(newSettings)
            /\ UNCHANGED uncaught
       ELSE /\ uncaught' = uncaught \cup {"handleUpdateSettings"}
            /\ UNCHANGED settingsStorage
  /\ UNCHANGED << settingsPhase, logged, alerts >>
  /\ SettingsFrame

\* setSettings(defaultSettings), then removeItem outside any try
handleResetSettings ==
  /\ CanCallSettings
  /\ nops' = nops + 1
  /\ settings' = defaultSettings
  /\ IF storageDenied
       THEN /\ uncaught' = uncaught \cup {"handleResetSettings"}
            /\ UNCHANGED settingsStorage
       ELSE /\ settingsStorage' = Null
            /\ UNCHANGED uncaught
  /\ UNCHANGED << settingsPhase, logged, alerts >>
  /\ SettingsFrame

\* reader.onload of handleImportSettings: JSON.parse, setSettings and setItem
\* inside one try; the catch logs and alerts
handleImportSettings(result, ok) ==
  /\ CanCallSettings
  /\ nops' = nops + 1
  /\ IF ParseThrows(result)
       THEN UNCHANGED << settings, settingsStorage >>
       ELSE /\ settings' = Parse(result)
            /\ settingsStorage' = (IF ok THEN StringifySettings(Parse(result))
                                         ELSE settingsStorage)
  /\ IF ParseThrows(result) \/ ~ok
       THEN /\ logged' = logged \cup {ImportFailed}
            /\ alerts' = Append(alerts, ImportFailedAlert)
       ELSE UNCHANGED << logged, alerts >>
  /\ UNCHANGED << settingsPhase, uncaught >>
  /\ SettingsFrame

UpdateSettings ==
  \E x \in SettingsInputs : \E ok \in SetItemOutcomes :
    handleUpdateSettings(x, ok) /\ UNCHANGED managerVars

ResetSettings == handleResetSettings /\ UNCHANGED managerVars

ImportSettings ==
  \E f \in ImportFiles : \E ok \in SetItemOutcomes :
    handleImportSettings(f, ok) /\ UNCHANGED managerVars

NextSettings ==
  \/ SettingsMount
  \/ UpdateSettings
  \/ ResetSettings
  \/ ImportSettings

SpecSettings == InitSettings /\ [][NextSettings]_vars

(* --------------------------- SettingsManager --------------------------- *)
\* SettingsManager is the child of SettingsPage. Its handlers run in click and
\* change events, each followed by the re-render of the page and of
\* SettingsManager and by the effect on [settings], which runs when the
\* settings prop is a new object.

\* defaultSettings of SettingsManager.tsx, field for field that of the page
managerDefaultSettings == [autoSave |-> TRUE, fontSize |-> "medium"]

\* the values the form controls can give a setting
SettingValues(key) == IF key = "autoSave" THEN BOOLEAN ELSE {"medium", "large"}

InitManager ==
  /\ InitWith({Undefined}, {Null})
  /\ storageDenied = FALSE
  /\ callWindow = MaxTime
  /\ onExport = FALSE
  /\ onSave = FALSE
  /\ SettingsInit({Null, Malformed} \cup {StringifySettings(x) : x \in SettingsInputs})
  /\ TemplatesInit
  /\ CatalogInit
  /\ ModalInit({<< >>})
  /\ FormInit({<< >>}, {})

\* useEffect(() => { setLocalSettings(settings); setHasUnsavedChanges(false) },
\* [settings]) after a render in which the prop is a new object; otherwise the
\* state is what the handler set
SettingsEffect(propChanged, local, unsaved) ==
  /\ localSettings' = (IF propChanged THEN settings' ELSE local)
  /\ hasUnsavedChanges' = (IF propChanged THEN FALSE ELSE unsaved)

\* first commit of the page with SettingsManager in it, and the re-render the
\* load effect causes
ManagerMount ==
  /\ LoadSettings
  /\ SettingsEffect(settings' # settings, localSettings, hasUnsavedChanges)
  /\ UNCHANGED << smCall, updateCalls >>

updateSetting(key, value) ==
  /\ CanCallSettings
  /\ nops' = nops + 1
  /\ localSettings' = [localSettings EXCEPT ![key] = value]
  /\ hasUnsavedChanges' = TRUE
  /\ smCall' = "updateSetting"
  /\ UNCHANGED << settingsVars, updateCalls, logged, uncaught, alerts >>
  /\ SettingsFrame

\* the Save Changes button, rendered while hasUnsavedChanges. The draft is an
\* object updateSetting made, so the prop is a new object afterwards; when
\* setItem throws in onUpdateSettings the rest of saveSettings does not run
saveSettings(ok) ==
  /\ hasUnsavedChanges
  /\ handleUpdateSettings(localSettings, ok)
  /\ SettingsEffect(TRUE, localSettings, IF ok THEN FALSE ELSE hasUnsavedChanges)
  /\ smCall' = "saveSettings"
  /\ updateCalls' = updateCalls + 1

\* discardChanges that only hides the unsaved-changes bar
discardChanges_KeepsDraft ==
  /\ CanCallSettings
  /\ hasUnsavedChanges
  /\ nops' = nops + 1
  /\ localSettings' = localSettings
  /\ hasUnsavedChanges' = FALSE
  /\ smCall' = "discardChanges"
  /\ UNCHANGED << settingsVars, updateCalls, logged, uncaught, alerts >>
  /\ SettingsFrame

\* the Discard button, rendered while hasUnsavedChanges
discardChanges ==
  /\ CanCallSettings
  /\ hasUnsavedChanges
  /\ nops' = nops + 1
  /\ localSettings' = settings
  /\ hasUnsavedChanges' = FALSE
  /\ smCall' = "discardChanges"
  /\ UNCHANGED << settingsVars, updateCalls, logged, uncaught, alerts >>
  /\ SettingsFrame

\* onResetSettings(), then the draft is set to the defaults of this file. The
\* prop is a new object unless the page's state was its defaultSettings object
\* already, which its value being the defaults allows
resetToDefaults(propChanged) ==
  /\ propChanged \/ settings = defaultSettings
  /\ handleResetSettings
  /\ SettingsEffect(propChanged, managerDefaultSettings, FALSE)
  /\ smCall' = "resetToDefaults"
  /\ UNCHANGED updateCalls

\* onImportSettings(file) and reader.onload: JSON.parse gives a new object
importSettings(result, ok) ==
  /\ handleImportSettings(result, ok)
  /\ SettingsEffect(~ParseThrows(result), localSettings, hasUnsavedChanges)
  /\ smCall' = "onImportSettings"
  /\ UNCHANGED updateCalls

ManagerUpdate ==
  \E key \in DOMAIN defaultSettings : \E value \in SettingValues(key) :
    updateSetting(key, value)

ManagerSave == \E ok \in SetItemOutcomes : saveSettings(ok)

ManagerReset == \E propChanged \in BOOLEAN : resetToDefaults(propChanged)

ManagerImport ==
  \E f \in ImportFiles : \E ok \in SetItemOutcomes : importSettings(f, ok)

NextManager ==
  \/ ManagerMount
  \/ ManagerUpdate
  \/ ManagerSave
  \/ discardChanges
  \/ ManagerReset
  \/ ManagerImport

SpecManager == InitManager /\ [][NextManager]_vars

(* ----------------------------- TemplatesPage --------------------------- *)
\* a render that shows the template list whenever no template is selected
RenderTemplates_ListWithoutCategory(category, template, term, difficulty, by) ==
  IF template = Null
    THEN LET r == getFilteredTemplates(catalog.PRESET_TEMPLATES, category, term,
                                       difficulty, by)
         IN /\ filteredTemplates' = r.templates
            /\ catalog' = [catalog EXCEPT !.PRESET_TEMPLATES = r.presets]
    ELSE /\ filteredTemplates' = Null
         /\ UNCHANGED catalog

\* the render of TemplatesPage for the state a handler has set: the detail view,
\* the template list of the selected category, or the category view
RenderTemplates(category, template, term, difficulty, by) ==
  IF template = Null /\ category # ""
    THEN LET r == getFilteredTemplates(catalog.PRESET_TEMPLATES, category, term,
                                       difficulty, by)
         IN /\ filteredTemplates' = r.templates
            /\ catalog' = [catalog EXCEPT !.PRESET_TEMPLATES = r.presets]
    ELSE /\ filteredTemplates' = Null
         /\ UNCHANGED catalog

\* a handler of TemplatesPage sets state and the page renders again
TemplatesStep(category, template, term, difficulty, by) ==
  /\ selectedCategory' = category
  /\ selectedTemplate' = template
  /\ searchTerm' = term
  /\ difficultyFilter' = difficulty
  /\ sortBy' = by
  /\ RenderTemplates(category, template, term, difficulty, by)
  /\ UNCHANGED << checklistVars, nops, exportVars, browserVars, settingsVars, managerVars,
                  modalVars, formVars >>

InCategoryView == selectedCategory = "" /\ selectedTemplate = Null
InListView == selectedCategory # "" /\ selectedTemplate = Null
InDetailView == selectedTemplate # Null

\* onClick={() => setSelectedCategory(category)} of a category card
SelectCategory ==
  /\ InCategoryView
  /\ \E c \in TEMPLATE_CATEGORIES :
       TemplatesStep(c, selectedTemplate, searchTerm, difficultyFilter, sortBy)

\* onClick={() => setSelectedTemplate(template)} of a listed template
SelectTemplate ==
  /\ InListView
  /\ \E i \in 1..Len(filteredTemplates) :
       TemplatesStep(selectedCategory, filteredTemplates[i], searchTerm,
                     difficultyFilter, sortBy)

SetSearchTerm ==
  /\ InListView
  /\ \E term \in SearchTerms \ {searchTerm} :
       TemplatesStep(selectedCategory, selectedTemplate, term, difficultyFilter, sortBy)

SetDifficultyFilter ==
  /\ InListView
  /\ \E d \in {"all", "easy", "medium", "hard"} \ {difficultyFilter} :
       TemplatesStep(selectedCategory, selectedTemplate, searchTerm, d, sortBy)

SetSortBy ==
  /\ InListView
  /\ \E by \in {"name", "duration", "difficulty"} \ {sortBy} :
       TemplatesStep(selectedCategory, selectedTemplate, searchTerm, difficultyFilter, by)

handleBackToCategories ==
  /\ InListView
  /\ TemplatesStep("", Null, "", difficultyFilter, sortBy)

handleBackToTemplates ==
  /\ InDetailView
  /\ TemplatesStep(selectedCategory, Null, searchTerm, difficultyFilter, sortBy)

\* the checklist page and the templates page of one browser session: they
\* import the same module data/presetChecklists
InitTemplates ==
  /\ InitWith({Undefined}, {Null})
  /\ storageDenied = FALSE
  /\ callWindow = MaxTime
  /\ onExport = FALSE
  /\ onSave = FALSE
  /\ OthersClosed

NextTemplates ==
  \/ SelectCategory
  \/ SelectTemplate
  \/ SetSearchTerm
  \/ SetDifficultyFilter
  \/ SetSortBy
  \/ handleBackToCategories
  \/ handleBackToTemplates
  \/ Mount
  \/ Render
  \/ AddSection
  \/ Reset

SpecTemplates == InitTemplates /\ [][NextTemplates]_vars

(* -------------------------- CreateTemplateModal ------------------------ *)
\* `section-${Date.now()}` and `item-${Date.now()}`
ModalSectionId(t) == [kind |-> "section", ts |-> t]
ModalItemId(t) == [kind |-> "item", ts |-> t]

\* the sections of a template given as editingTemplate
EditedSections ==
  << [id |-> TplId(10), order |-> 1,
      items |-> << [id |-> TplId(11), order |-> 1] >>] >>

\* the sections of a larger template given as editingTemplate
EditedTwoSections ==
  << [id |-> TplId(10), order |-> 1,
      items |-> << [id |-> TplId(11), order |-> 1], [id |-> TplId(12), order |-> 2] >>],
     [id |-> TplId(20), order |-> 2,
      items |-> << [id |-> TplId(21), order |-> 1] >>] >>

\* the categories prop
CategoriesProp == << [id |-> "cleaning"], [id |-> "maintenance"] >>

\* the modal is opened to create a template or to edit one
InitModal ==
  /\ InitWith({Undefined}, {Null})
  /\ storageDenied = FALSE
  /\ callWindow = MaxTime
  /\ onExport = FALSE
  /\ onSave = FALSE
  /\ SettingsInit({Null})
  /\ TemplatesInit
  /\ CatalogInit
  /\ ModalInit({<< >>, EditedSections, EditedTwoSections})
  /\ FormInit({CategoriesProp}, {"cleaning"})

\* setSections(next): the state changes and a re-render is scheduled
SetSections(next) ==
  /\ sections' = next
  /\ modalDirty' = TRUE
  /\ nops' = nops + 1
  /\ UNCHANGED << sectionsView, checklistVars, exportVars, browserVars, settingsVars, managerVars,
                  templatesVars, catalog, formVars >>

CanCallModal == nops < MaxOps

\* the section ids and (section id, item id) pairs of the rendered buttons
ModalSectionPicks == {sectionsView[i].id : i \in Picked(sectionsView)}

ModalItemPicks ==
  UNION { {<< sectionsView[i].id, sectionsView[i].items[j].id >> :
             j \in Picked(sectionsView[i].items)} :
          i \in Picked(sectionsView) }

addSection ==
  /\ CanCallModal
  /\ SetSections(Append(sectionsView,
        [id |-> ModalSectionId(now), order |-> Len(sectionsView) + 1, items |-> << >>]))

removeSection(sectionId) ==
  /\ CanCallModal
  /\ SetSections(SelectSeq(sectionsView, LAMBDA section : section.id # sectionId))

addItemToSection(sectionId) ==
  /\ CanCallModal
  /\ SetSections(
       [i \in 1..Len(sectionsView) |->
          IF sectionsView[i].id = sectionId
            THEN [sectionsView[i] EXCEPT
                    !.items = Append(@, [id |-> ModalItemId(now),
                                         order |-> Len(sectionsView[i].items) + 1])]
            ELSE sectionsView[i]])

removeItem(sectionId, itemId) ==
  /\ CanCallModal
  /\ SetSections(
       [i \in 1..Len(sectionsView) |->
          IF sectionsView[i].id = sectionId
            THEN [sectionsView[i] EXCEPT
                    !.items = SelectSeq(@, LAMBDA item : item.id # itemId)]
            ELSE sectionsView[i]])

\* the scheduled re-render of the modal
ModalRender ==
  /\ modalDirty
  /\ sectionsView' = sections
  /\ modalDirty' = FALSE
  /\ UNCHANGED << sections, nops, checklistVars, exportVars, browserVars, settingsVars, managerVars,
                  templatesVars, catalog, formVars >>

\* time passes while the modal is open
ModalTick ==
  /\ ~modalDirty
  /\ now < callWindow
  /\ now' = now + TickMs
  /\ UNCHANGED << saveVars, phase, initialChecklist, checklist, view, dirty, timers, timeoutId,
                  storage, nops, ioVars, lastChangeAt, burstLen, cancelledAt, hist,
                  browserVars, otherVars, exportVars >>

AddModalSection == addSection

RemoveModalSection == \E sid \in ModalSectionPicks : removeSection(sid)

AddModalItem == \E sid \in ModalSectionPicks : addItemToSection(sid)

RemoveModalItem == \E p \in ModalItemPicks : removeItem(p[1], p[2])

NextModal ==
  \/ AddModalSection
  \/ RemoveModalSection
  \/ AddModalItem
  \/ RemoveModalItem
  \/ ModalRender
  \/ ModalTick

SpecModal == InitModal /\ [][NextModal]_vars

(* ----------------------- CreateTemplateModal: the form ----------------- *)
\* String.prototype.trim, for the texts typed below
Trim(text) ==
  CASE text = " " -> ""
    [] text = " Plan " -> "Plan"
    [] OTHER -> text

\* what the user types into the name and description fields
TypedTexts == {"", " ", " Plan "}

\* what the duration field gives: parseInt(e.target.value) || 60
TypedDurations == {-5, 60}

\* the modal is opened on the form, to create a template or to edit one whose
\* category is or is not among the categories given
InitForm ==
  /\ InitWith({Undefined}, {Null})
  /\ storageDenied = FALSE
  /\ callWindow = MaxTime
  /\ onExport = FALSE
  /\ onSave = FALSE
  /\ SettingsInit({Null})
  /\ TemplatesInit
  /\ CatalogInit
  /\ ModalInit({<< >>, EditedSections})
  /\ FormInit({CategoriesProp, << >>}, {"cleaning", "archived"})

\* what an action on the form leaves alone
FormFrame ==
  /\ nops' = nops + 1
  /\ UNCHANGED << categories, editingTemplate, modalVars, checklistVars, exportVars,
                  browserVars, settingsVars, managerVars, templatesVars, catalog >>

\* setFormData({ ...formData, [field]: value }) of a change event, and the
\* re-render that follows the event
setFormData(field, value) ==
  /\ CanCallModal
  /\ formData' = [formData EXCEPT ![field] = value]
  /\ UNCHANGED << errors, savedTemplate, templateSaves >>
  /\ FormFrame

\* the keys of newErrors in validateForm
validateForm ==
  {k \in {"name"} : Trim(formData.name) = ""}
    \cup {k \in {"description"} : Trim(formData.description) = ""}
    \cup {k \in {"categoryId"} : formData.categoryId = ""}
    \cup {k \in {"estimatedDuration"} : formData.estimatedDuration < 1}
    \cup {k \in {"sections"} : Len(sectionsView) = 0}

\* `custom-template-${Date.now()}`
CustomTemplateId(t) == [kind |-> "custom-template", ts |-> t]

\* the template handleSave builds
BuiltTemplate(category) ==
  [id |-> IF editingTemplate # Null THEN editingTemplate.id ELSE CustomTemplateId(now),
   name |-> Trim(formData.name),
   description |-> Trim(formData.description),
   category |-> category,
   version |-> IF editingTemplate # Null /\ editingTemplate.version # ""
                 THEN editingTemplate.version ELSE "1.0",
   createdAt |-> IF editingTemplate # Null THEN editingTemplate.createdAt ELSE Date(now),
   lastModified |-> Date(now),
   sections |-> sectionsView,
   estimatedDuration |-> formData.estimatedDuration]

handleSave ==
  /\ CanCallModal
  /\ errors' = validateForm
  /\ LET found == FindIndex(categories, formData.categoryId)
     IN IF validateForm = {} /\ found # 0
          THEN /\ savedTemplate' = BuiltTemplate(categories[found])
               /\ templateSaves' = templateSaves + 1
          ELSE UNCHANGED << savedTemplate, templateSaves >>
  /\ UNCHANGED formData
  /\ FormFrame

SetName == \E text \in TypedTexts : setFormData("name", text)

SetDescription == \E text \in TypedTexts : setFormData("description", text)

SetCategory ==
  \E i \in 1..Len(categories) : setFormData("categoryId", categories[i].id)

SetDuration == \E n \in TypedDurations : setFormData("estimatedDuration", n)

NextForm ==
  \/ SetName
  \/ SetDescription
  \/ SetCategory
  \/ SetDuration
  \/ handleSave
  \/ AddModalSection
  \/ ModalRender

SpecForm == InitForm /\ [][NextForm]_vars

(* ------------------------------ rendering ------------------------------ *)
\* the render computing the progress of the template instead of the state
progress_OfTemplate == calculateProgress(CLEANING_PREWORK_TEMPLATE)

\* const progress = calculateProgress(checklist), in the render
progress == calculateProgress(view)

\* {checklist.isCompleted && ( ...completion banner... )}
bannerRendered == view.isCompleted

(* ---------------------- counting, for the properties ------------------- *)
\* the positions (section, item) of the items of a checklist
ItemSlots(c) ==
  UNION { {<< i, j >> : j \in 1..Len(c.sections[i].items)} : i \in 1..Len(c.sections) }

TotalItems(c) == Cardinality(ItemSlots(c))

CompletedItems(c) ==
  Cardinality({p \in ItemSlots(c) : c.sections[p[1]].items[p[2]].isCompleted})

\* p is round(100 * k / n), halves rounded up: the integer p of 0..100 with
\* p - 1/2 <= 100 k / n < p + 1/2; 0 stands for the quotient when n = 0
IsRoundedPercent(p, k, n) ==
  IF n = 0 THEN p = 0
  ELSE /\ p \in 0..100
       /\ 2 * n * p - n <= 200 * k
       /\ 200 * k < 2 * n * p + n

(* -------------------------------- claims ------------------------------- *)
\* C1: in every reachable state the stored field checklist.progress equals
\* round(100 * completed items / total items) over all items of all sections,
\* and 0 when there are no items.
C1_ProgressField ==
  IsRoundedPercent(checklist.progress, CompletedItems(checklist), TotalItems(checklist))

\* C1 witness: two sections of two items with one item ticked in each, reached
\* by two handler calls; the stored progress is 50.
C1_Witness ==
  /\ nops = 2
  /\ Len(checklist.sections) = 2
  /\ \A i \in 1..2 : /\ Len(checklist.sections[i].items) = 2
                     /\ \E j \in 1..2 :
                          /\ checklist.sections[i].items[j].isCompleted
                          /\ ~checklist.sections[i].items[3 - j].isCompleted
  /\ checklist.progress = 50

\* C2: checklist.isCompleted is true exactly when the checklist has at least
\* one item and every item is completed.
C2_CompletedIffAllDone ==
  checklist.isCompleted <=>
    (TotalItems(checklist) > 0 /\ CompletedItems(checklist) = TotalItems(checklist))

C4_CompletedAtStamped ==
  [][(nops' = nops + 1 /\ ~checklist.isCompleted /\ checklist'.isCompleted)
       => Get(checklist', "completedAt") # Undefined]_vars

\* C5: the completion banner is rendered exactly when the aggregator's
\* percentage for the rendered checklist is 100 and its total is above 0.
C5_BannerIffComplete ==
  bannerRendered <=> (progress.percentage = 100 /\ progress.total > 0)

\* C5 witness: the banner is shown directly after a snapshot was loaded from
\* storage and rendered, before any handler call.
C5_Witness ==
  /\ phase = "mounted"
  /\ reads = 1
  /\ nops = 0
  /\ ~dirty
  /\ view # CLEANING_PREWORK_TEMPLATE
  /\ bannerRendered

\* C6: calling handleToggleComplete twice in a row on an item, with a
\* re-render in between and nothing else, returns the item's completed flag,
\* the checklist's progress and isCompleted to what they were.
C6_DoubleToggleRestores ==
  hist.stage = 2 =>
    /\ checklist.sections[hist.si].items[hist.ii].isCompleted = hist.flag
    /\ checklist.progress = hist.progress
    /\ checklist.isCompleted = hist.isCompleted

\* C7: a setItem call happens only when the delay has elapsed since the last
\* change, it is the only one since that change, and what it stores is the
\* state after the last change; once no timer is pending the write of the last
\* change has been made exactly once.
C7_DebouncedWrite ==
  /\ [][writesSinceChange' = writesSinceChange + 1 =>
          /\ writesSinceChange = 0
          /\ now >= lastChangeAt + DebounceDelay
          /\ writes' = writes + 1 => storage' = Stringify(checklist)]_vars
  /\ []((phase = "mounted" /\ ~dirty /\ timers = {}) => writesSinceChange = 1)

\* C7 witness: three changes in a row, each less than the delay after the one
\* before, two of them handler calls, and then the one write.
C7_Witness ==
  /\ nops = 2
  /\ burstLen = 3
  /\ lastChangeAt > 0
  /\ writesSinceChange = 1
  /\ writes = 1
  /\ storage = Stringify(checklist)

\* C8: if the component stays mounted and no write fails, the stored value
\* eventually equals the serialization of the current checklist, for good once
\* the changes have ended.
C8_EventuallyPersisted ==
  \/ <>(phase = "unmounted" \/ writeFailed)
  \/ <>[](storage = Stringify(checklist))

\* C8 witness: a reset has been persisted.
C8_Witness ==
  /\ phase = "mounted"
  /\ checklist.id.kind = "checklist"
  /\ ~writeFailed
  /\ storage = Stringify(checklist)

\* C9: after the unmount nothing is written: the stored value and the number of
\* setItem calls stay as they were.
C9_NoWriteAfterUnmount ==
  [][(phase = "unmounted" \/ phase' = "unmounted") =>
       /\ storage' = storage
       /\ writes' = writes
       /\ writesSinceChange' = writesSinceChange
       /\ writeFailed' = writeFailed]_vars

\* C9 witness: the unmount cleared a pending timer, its deadline has passed and
\* the stored value is not the last state.
C9_Witness ==
  /\ phase = "unmounted"
  /\ cancelledAt >= 0
  /\ now >= cancelledAt
  /\ nops > 0
  /\ storage # Stringify(checklist)

\* C10: without an initialChecklist the stored snapshot is read exactly once,
\* at the mount and before any write; with an initialChecklist it is never read.
C10_ReadOnceBeforeWrite ==
  /\ initialChecklist = Undefined => reads = (IF phase = "init" THEN 0 ELSE 1)
  /\ initialChecklist # Undefined => reads = 0
  /\ phase = "init" => (writes = 0 /\ writesSinceChange = 0 /\ timers = {})
  /\ (initialChecklist = Undefined /\ writes + writesSinceChange > 0) => reads = 1

\* C10 witness: mounted without an initialChecklist on a stored snapshot, which
\* was read once and later written back.
C10_Witness ==
  /\ initialChecklist = Undefined
  /\ reads = 1
  /\ writes = 1
  /\ nops = 0
  /\ storage = Stringify(AllDone)

\* C11: a storage failure of ChecklistContainer is not fatal. No exception
\* leaves an effect or a timer callback; when the read throws or the stored text
\* is not JSON the failure is logged and the checklist stays the initial one;
\* when a write throws the failure is logged, the checklist and what is rendered
\* are unchanged, and handleToggleSection on a rendered section and handleReset
\* can still be called afterwards.
C11_StorageFailureNonFatal ==
  /\ [](uncaught = {})
  /\ []((phase # "init" /\ storageDenied) => LoadFailed \in logged)
  /\ []((LoadFailed \in logged /\ nops = 0)
          => (checklist = CLEANING_PREWORK_TEMPLATE /\ view = checklist /\ ~dirty))
  /\ [][(writesSinceChange' = writesSinceChange + 1 /\ writes' = writes)
         => /\ SaveFailed \in logged'
            /\ checklist' = checklist
            /\ view' = view
            /\ phase' = phase]_vars
  /\ []((writeFailed /\ CanCall /\ ~dirty)
          => (ENABLED ToggleSection /\ ENABLED handleReset))

\* C11 witness: the stored text was not JSON, the first write threw, and an
\* item was ticked after that.
C11_Witness ==
  /\ LoadFailed \in logged
  /\ SaveFailed \in logged
  /\ nops > 0
  /\ lastChangeAt >= DebounceDelay
  /\ writesSinceChange = 0
  /\ CompletedItems(checklist) = 1

\* C12: a storage failure of SettingsPage is not fatal: no exception leaves the
\* load effect, handleUpdateSettings, handleResetSettings or
\* handleImportSettings, and the page stays mounted.
C12_SettingsFailureNonFatal ==
  /\ uncaught = {}
  /\ settingsPhase # "crashed"

\* C13: when the clipboard write of copyToClipboard is rejected, the failure
\* is logged and an alert other than the success alert is shown; the checklist
\* and the export state are unchanged.
C13_CopyFailureAlerted ==
  [][copyFailures' = copyFailures + 1
       => /\ CopyFailed \in logged'
          /\ Len(alerts') = Len(alerts) + 1
          /\ alerts'[Len(alerts')] # CopiedAlert
          /\ checklist' = checklist
          /\ exportData' = exportData
          /\ isExportModalOpen' = isExportModalOpen]_vars

\* C20: handleExport produces a JSON document whose checklist field is the
\* checklist state at the time of the call, with exportedAt, exportedBy and the
\* three include flags; the document given to onExport carries that checklist;
\* downloadJson and copyToClipboard deliver exactly the document produced.
C20_ExportIsCurrentState ==
  /\ [][exportCalls' = exportCalls + 1
         => /\ exportData'.type = "json"
            /\ exportData'.doc.checklist = JsonChecklist(checklist)
            /\ exportData'.doc.exportedAt = IsoString(now)
            /\ exportData'.doc.exportedBy = "current_user"
            /\ exportData'.doc.includeImages
            /\ exportData'.doc.includeNotes
            /\ exportData'.doc.includeTimestamps
            /\ onExport => exported'.checklist = checklist]_vars
  /\ [][downloaded' # downloaded => downloaded' = exportData]_vars
  /\ [][clipboard' # clipboard => clipboard' = exportData]_vars

\* two objects have the same value in every field, a missing key read as
\* undefined
SameFieldsExcept(a, b, skip) ==
  \A k \in ((DOMAIN a) \cup (DOMAIN b)) \ skip : Get(a, k) = Get(b, k)

SameItems(x, y) ==
  /\ Len(x) = Len(y)
  /\ \A j \in 1..Len(x) : SameFieldsExcept(x[j], y[j], {})

SameSections(x, y) ==
  /\ Len(x) = Len(y)
  /\ \A i \in 1..Len(x) : /\ SameFieldsExcept(x[i], y[i], {"items"})
                            /\ SameItems(x[i].items, y[i].items)

SameChecklist(a, b) ==
  /\ SameFieldsExcept(a, b, {"sections"})
  /\ SameSections(a.sections, b.sections)

\* C14: what a write stores, read back with JSON.parse, is a checklist equal to
\* the written state in every field of the checklist, its sections and its
\* items, the timestamps included.
C14_RoundTripEqual ==
  [][writes' = writes + 1 => SameChecklist(Parse(storage'), checklist)]_vars

\* C15: after handleReset, whatever the state before, the sections and items of
\* the checklist are exactly those of the template and its progress and
\* isCompleted fields are those of the template; the next render shows that.
C15_ResetRestoresTemplate ==
  /\ [][hist' = ResetHist /\ nops' = nops + 1
         => /\ checklist'.sections = CLEANING_PREWORK_TEMPLATE.sections
            /\ checklist'.progress = CLEANING_PREWORK_TEMPLATE.progress
            /\ checklist'.isCompleted = CLEANING_PREWORK_TEMPLATE.isCompleted
            /\ CompletedItems(checklist') = 0]_vars
  /\ []((hist = ResetHist /\ ~dirty)
          => (view.sections = CLEANING_PREWORK_TEMPLATE.sections /\ ~bannerRendered))

\* C15 witness: a snapshot with every item ticked was loaded, one more handler
\* was called, then handleReset at a later time, and the result is rendered.
C15_Witness ==
  /\ hist = ResetHist
  /\ nops = 2
  /\ reads = 1
  /\ storage = Stringify(AllDone)
  /\ lastChangeAt > 0
  /\ ~dirty
  /\ view.sections = CLEANING_PREWORK_TEMPLATE.sections

\* C16: no sequence of operations modifies the template catalog:
\* CLEANING_PREWORK_TEMPLATE with its sections and items, and the contents and
\* the order of PRESET_TEMPLATES, are in every state as the module defines them.
C16_CatalogUnchanged ==
  /\ catalog.CLEANING_PREWORK_TEMPLATE = CLEANING_PREWORK_TEMPLATE
  /\ catalog.PRESET_TEMPLATES = PRESET_TEMPLATES

\* C16 witness: the templates page lists one category sorted by duration, in
\* another order than the catalog has, while the checklist page has added a
\* section in front of the template's sections and has been reset.
C16_Witness ==
  /\ InListView
  /\ sortBy = "duration"
  /\ Len(filteredTemplates) = 3
  /\ filteredTemplates # SelectSeq(PRESET_TEMPLATES, LAMBDA t : t.category.id = "cleaning")
  /\ hist = ResetHist
  /\ nops = 2
  /\ ~dirty

\* C17: a checklist created from the template has new identifiers: at
\* construction without an initialChecklist, and after handleReset, no section or
\* item identifier of the checklist is one of the template, and after
\* handleReset none is one of the checklist that was replaced.
C17_FreshIdentifiers ==
  /\ []((phase = "init" /\ initialChecklist = Undefined)
          => IdsOf(checklist) \cap IdsOf(CLEANING_PREWORK_TEMPLATE) = {})
  /\ [][hist' = ResetHist /\ nops' = nops + 1
         => IdsOf(checklist') \cap
              (IdsOf(CLEANING_PREWORK_TEMPLATE) \cup IdsOf(checklist)) = {}]_vars

\* the ids of a sequence of objects are pairwise distinct
DistinctIds(seq) == \A i, j \in 1..Len(seq) : seq[i].id = seq[j].id => i = j

\* section ids are distinct, and item ids are distinct within each section
IdsUnique(secs) ==
  /\ DistinctIds(secs)
  /\ \A i \in 1..Len(secs) : DistinctIds(secs[i].items)

\* C18: after any sequence of add operations, also within one millisecond, the
\* section identifiers of the checklist and of the template being edited are
\* pairwise distinct, and so are the item identifiers within each section.
C18_IdsUnique ==
  /\ IdsUnique(checklist.sections)
  /\ IdsUnique(sections)

\* the section positions at which the identifier of the item at slot p occurs
SectionsHolding(c, p) ==
  {q[1] : q \in {r \in ItemSlots(c) :
                   c.sections[r[1]].items[r[2]].id = c.sections[p[1]].items[p[2]].id}}

\* C19: the checklist is a strict tree: no item occurs in two sections; and one
\* handleAddItem call for a section of the rendered checklist adds one item to
\* one section.
C19_StrictTree ==
  /\ [](\A p \in ItemSlots(checklist) : SectionsHolding(checklist, p) = {p[1]})
  /\ [][(nops' = nops + 1 /\ "call" \in DOMAIN hist' /\ hist'.call = "handleAddItem"
           /\ FindIndex(view.sections, hist'.sectionId) # 0)
         => TotalItems(checklist') = TotalItems(view) + 1]_vars

\* a checklist with an empty items array in every section that has none
WithEmptyItems(c) ==
  [c EXCEPT !.sections =
     [i \in 1..Len(c.sections) |->
        IF HasItems(c.sections[i]) THEN c.sections[i]
        ELSE Merge(c.sections[i], [items |-> << >>])]]

\* C21: a section without an items array counts as a section with zero items
\* in the progress, and rendering it and applying the item handlers raise no
\* fault.
C21_MissingItemsAsEmpty ==
  /\ calculateProgress(checklist) = calculateProgress(WithEmptyItems(checklist))
  /\ uncaught = {}

\* whether p is x rounded to the nearest integer, halves up, for x = num/den
IsRounded(p, num, den) == 2 * den * p <= 2 * num + den /\ 2 * num + den < 2 * den * (p + 1)

\* the sections the page shows
RenderedSections == {view.sections[i] : i \in 1..Len(view.sections)}

\* C22: for every rendered section the progress of the one-section checklist
\* has the counts ChecklistSection computes directly, its percentage is
\* round(100 * completed / items), 0 for an empty section, 'Section Complete'
\* shows only for a section with an item and all items completed, and a render
\* leaves the checklist as it was.
C22_SectionProgressAgrees ==
  /\ [](\A s \in RenderedSections :
         LET p == sectionProgress(s, now)
             done == {j \in 1..Len(s.items) : s.items[j].isCompleted}
         IN /\ p.completed = SectionCompletedCount(s)
            /\ p.completed = Cardinality(done)
            /\ p.total = Len(s.items)
            /\ IF Len(s.items) = 0 THEN p.percentage = 0
                 ELSE IsRounded(p.percentage, 100 * Cardinality(done), Len(s.items))
            /\ ShowsSectionComplete(s) =>
                 (Len(s.items) >= 1 /\ \A j \in 1..Len(s.items) : s.items[j].isCompleted))
  /\ [][view' # view => (checklist' = checklist /\ view' = checklist)]_vars

\* a collapsed section with items, all of them completed, is on the page with
\* its footer
C22_Witness ==
  /\ phase = "mounted"
  /\ \E s \in RenderedSections : ShowsSectionComplete(s)

\* whether checklist d has every section of checklist c, at its place and with
\* its collapsed flag, and in it every item of c as c has it
KeepsAll(c, d) ==
  /\ Len(d.sections) = Len(c.sections)
  /\ \A i \in 1..Len(c.sections) :
       /\ d.sections[i].id = c.sections[i].id
       /\ d.sections[i].isCollapsed = c.sections[i].isCollapsed
       /\ Len(d.sections[i].items) >= Len(c.sections[i].items)
       /\ SubSeq(d.sections[i].items, 1, Len(c.sections[i].items)) = c.sections[i].items

\* C23: no update is lost: a handleAddItem call, whether or not the component
\* has re-rendered since the previous handler call, gives a checklist that has
\* everything the state had before it (the earlier mutation) and the new item.
C23_NoUpdateLost ==
  [][(nops' = nops + 1 /\ "call" \in DOMAIN hist' /\ hist'.call = "handleAddItem")
       => (KeepsAll(checklist, checklist')
           /\ TotalItems(checklist') > TotalItems(checklist))]_vars

\* C24: after any sequence of handler calls every section's cached
\* completedCount is the number of its completed items and its cached
\* totalCount is the number of its items.
C24_CachedCountsExact ==
  \A i \in 1..Len(checklist.sections) :
    LET s == checklist.sections[i]
    IN /\ s.completedCount = Cardinality({j \in 1..Len(s.items) : s.items[j].isCompleted})
       /\ s.totalCount = Len(s.items)

\* C25: once SettingsPage has run its load effect, and as long as no import
\* has failed, the value stored under 'preWorkAppSettings' is absent or is the
\* serialization of the settings state.
C25_StoredSettingsInSync ==
  (settingsPhase = "mounted" /\ ImportFailed \notin logged) =>
    (settingsStorage = Null \/ settingsStorage = StringifySettings(settings))

\* whether record b is record a but for the fields in `fields`
SameBut(a, b, fields) ==
  /\ DOMAIN a \ fields = DOMAIN b \ fields
  /\ \A k \in DOMAIN a \ fields : a[k] = b[k]

\* whether checklist d is checklist c with the item `itemId` of the section
\* `sectionId` toggled at time t and nothing else changed but the derived fields
ToggledOnly(c, d, sectionId, itemId, t) ==
  /\ SameBut(c, d, {"sections", "progress", "isCompleted", "lastModified"})
  /\ Len(d.sections) = Len(c.sections)
  /\ \A i \in 1..Len(c.sections) :
       IF c.sections[i].id # sectionId THEN d.sections[i] = c.sections[i]
       ELSE /\ SameBut(c.sections[i], d.sections[i], {"items", "completedCount"})
            /\ Len(d.sections[i].items) = Len(c.sections[i].items)
            /\ \A j \in 1..Len(c.sections[i].items) :
                 LET old == c.sections[i].items[j]
                     new == d.sections[i].items[j]
                 IN IF old.id # itemId THEN new = old
                    ELSE /\ SameBut(old, new, {"isCompleted", "completedAt"})
                         /\ new.isCompleted = ~old.isCompleted
                         /\ Get(new, "completedAt") =
                              (IF new.isCompleted THEN Date(t) ELSE Undefined)

\* C26: a handleToggleComplete call changes the isCompleted and completedAt
\* fields of the item it names and the derived counts only; a call that names
\* no item of the page leaves the state as it is and does not call onSave.
C26_ToggleFrame ==
  [][\A p \in ItemPicks \cup {<< NoSuchId, NoSuchId >>} :
       handleToggleComplete(p[1], p[2]) =>
         IF p[1] = NoSuchId
           THEN checklist' = checklist /\ saveCalls' = saveCalls
           ELSE ToggledOnly(checklist, checklist', p[1], p[2], now)]_vars

\* C27: a state change made through updateChecklist calls onSave once, with the
\* new state; and after every change of the state, handleReset and the load
\* from storage included, the last value passed to onSave is the state.
C27_OnSaveFollowsState ==
  /\ [][(nops' = nops + 1 /\ checklist' # checklist /\ hist' # ResetHist)
          => (saveCalls' = saveCalls + 1 /\ saved' = checklist')]_vars
  /\ [][saveCalls' # saveCalls
          => (saveCalls' = saveCalls + 1 /\ saved' = checklist')]_vars
  /\ [][checklist' # checklist => saved' = checklist']_vars

\* C28: whenever hasUnsavedChanges is false the draft is the settings prop;
\* saveSettings passes the draft it has to onUpdateSettings; discardChanges
\* sets the draft to the settings prop and does not call onUpdateSettings.
C28_DraftFollowsSettings ==
  /\ []((settingsPhase = "mounted" /\ ~hasUnsavedChanges) => localSettings = settings)
  /\ [][(nops' = nops + 1 /\ smCall' = "saveSettings")
          => (updateCalls' = updateCalls + 1 /\ settings' = localSettings)]_vars
  /\ [][(nops' = nops + 1 /\ smCall' = "discardChanges")
          => (/\ localSettings' = settings
              /\ updateCalls' = updateCalls
              /\ settings' = settings
              /\ settingsStorage' = settingsStorage)]_vars

\* a draft that differed from the settings was discarded
C28_Witness ==
  /\ smCall = "discardChanges"
  /\ ~hasUnsavedChanges
  /\ localSettings = settings
  /\ settings # defaultSettings

\* whether the order keys of a sequence of sections or items are pairwise distinct
DistinctOrders(seq) ==
  \A i, j \in 1..Len(seq) : seq[i].order = seq[j].order => i = j

\* C30: in CreateTemplateModal the order keys of the sections are pairwise
\* distinct, and so are the order keys of the items of each section.
C30_OrderKeysDistinct ==
  /\ DistinctOrders(sections)
  /\ \A i \in 1..Len(sections) : DistinctOrders(sections[i].items)

\* the rules of a valid form that the form on the page breaks, by field
BrokenRules ==
  {k \in {"name"} : Trim(formData.name) = ""}
    \cup {k \in {"description"} : Trim(formData.description) = ""}
    \cup {k \in {"categoryId"} :
            \A i \in 1..Len(categories) : categories[i].id # formData.categoryId}
    \cup {k \in {"estimatedDuration"} : ~(formData.estimatedDuration >= 1)}
    \cup {k \in {"sections"} : ~(Len(sectionsView) >= 1)}

\* C29: handleSave calls onSave only when the form is valid; otherwise it does
\* not call onSave and records an error for each rule the form breaks; when a
\* template is edited the saved template keeps its id, version and createdAt.
C29_SaveOnlyValid ==
  [][handleSave =>
       IF BrokenRules = {}
         THEN /\ templateSaves' = templateSaves + 1
              /\ editingTemplate # Null =>
                   /\ savedTemplate'.id = editingTemplate.id
                   /\ savedTemplate'.version = editingTemplate.version
                   /\ savedTemplate'.createdAt = editingTemplate.createdAt
         ELSE /\ templateSaves' = templateSaves
              /\ BrokenRules \subseteq errors']_vars

====
